---- MODULE Spec2Model ----
(***************************************************************************)
(* A model of wjdr's character-sheet rule engine (src/src/wjdr/models).    *)
(*                                                                         *)
(*   Spec       the Character aggregate: construction, validated           *)
(*              assignment of its fields, direct writes to one attribute,  *)
(*              add_skill / delete_skill / add_talent / delete_talent.     *)
(*   SpecMoney  one Money object: construction and field assignment.       *)
(*   SpecArith  Money.__add__ and Money.__sub__ on normalized operands.    *)
(*   SpecSkills the fixture's Character under add_skill / delete_skill.    *)
(*   SpecParse  DicePool.from_string (src/src/wjdr/models/random.py).      *)
(*   SpecRoll   DicePool.roll.                                             *)
(*   SpecCareer Career.career_experience_amount.                           *)
(*   SpecExperience  Experience.available and Experience.spendable_ticks.  *)
(*                                                                         *)
(* pydantic behaviour the classes rely on, as modelled here:               *)
(*   - a model declared with validate_assignment=True validates a field    *)
(*     assignment; its mode="after" model validator runs on the instance   *)
(*     AFTER the validated value has been stored, so an error raised by    *)
(*     the validator does not take the stored value back;                  *)
(*   - a write to a field of a nested model (character.primary_attributes  *)
(*     .strength.advanced = v) is validated by the nested model only, the  *)
(*     Character's validator does not run;                                 *)
(*   - calling a method with a keyword it does not declare raises          *)
(*     TypeError, calling a method the class does not define raises        *)
(*     AttributeError; neither touches the object.                         *)
(***************************************************************************)
EXTENDS Integers, Sequences, FiniteSets, TLC

VARIABLES
    exists,                \* TRUE when construction returned a Character
    carrers,               \* Character.carrers: the applied careers, in order
    primary_attributes,    \* Character.primary_attributes: name -> advanced
    secondary_attributes,  \* Character.secondary_attributes: name -> advanced
    skills,                \* Character.skills: a set of CharacterSkill
    talents,               \* Character.talents: a set of Talent
    err,                   \* the error the last call raised, or NoError
    last,                  \* the last call: its name and skill argument
    money,                 \* a Money object <<gold, silver, copper>>
    moneyRaw,              \* the triple the last Money validation started from
    opA, opB, opC,         \* three normalized Money operands
    opRes,                 \* the outcome of the last Money operation
    pool_expr,             \* the terms a dice expression is written from
    pool_str,              \* the dice expression, a sequence of characters
    pool,                  \* a DicePool, or the outcome of DicePool.from_string
    rolled,                \* the outcome of the last DicePool.roll
    a_career,              \* a Career
    amount,                \* the last value read from a_career.career_experience_amount
    experience             \* an Experience and the values read from it

vars == <<exists, carrers, primary_attributes, secondary_attributes, skills,
          talents, err, last, money, moneyRaw, opA, opB, opC, opRes,
          pool_expr, pool_str, pool, rolled, a_career, amount, experience>>

characterVars == <<exists, carrers, primary_attributes, secondary_attributes,
                   skills, talents, err, last>>

moneyVars == <<money, moneyRaw>>

arithVars == <<opA, opB, opC, opRes>>

diceVars == <<pool_expr, pool_str, pool, rolled>>

sheetVars == <<a_career, amount, experience>>

----------------------------------------------------------------------------
(* Bounds of the model *)

\* primary advanced inputs range over 0 .. 5 * MaxTick
MaxTick == 4

\* secondary advanced inputs range over 0 .. MaxSecondary
MaxSecondary == 2

\* career lists hold at most MaxCareers careers
MaxCareers == 2

\* underlying skills are 1 .. NumSkills
NumSkills == 2

\* talents are 1 .. NumTalents
NumTalents == 1

\* Money is built from gold 0..MaxGold, silver 0..MaxSilver, copper 0..MaxCopper
MaxGold == 1

MaxSilver == 21

MaxCopper == 31

\* the operands of Money arithmetic hold at most MaxOpGold golden crowns
MaxOpGold == 1

\* a dice expression holds at most MaxTerms terms
MaxTerms == 3

\* a dice term NdM has N in 1 .. MaxDice
MaxDice == 2

\* a modifier has an absolute value in 1 .. MaxModifier
MaxModifier == 2

\* an entry of a rolled dice pool holds 0 .. MaxCount dice
MaxCount == 3

\* the strength target of a drawn career ranges over 0 .. MaxTarget
MaxTarget == 16

\* an Experience has total 50 * (0 .. MaxTotal) and spent 100 * (0 .. MaxSpent)
MaxTotal == 40

MaxSpent == 20

----------------------------------------------------------------------------
(* Values *)

Min(a, b) == IF a < b THEN a ELSE b

Max(a, b) == IF a > b THEN a ELSE b

PrimaryAttributeName ==
    <<"fight_capacity", "shooting_capacity", "strength", "toughness",
      "agility", "intelligence", "mental_strength", "sociability">>

SecondaryAttributeName == <<"attack", "wounds", "magic_point", "movement">>

Range(s) == {s[i] : i \in 1..Len(s)}

\* PrimaryAttribute.advanced: 0 <= advanced <= 100, a multiple of 5
PrimaryAttribute(v) == v >= 0 /\ v <= 100 /\ v % 5 = 0

\* SecondaryAttribute.advanced: advanced >= 0
SecondaryAttribute(v) == v >= 0

\* The PrimaryAttributes blocks the model draws: strength and agility vary
PrimaryAttributes ==
    {[n \in Range(PrimaryAttributeName) |->
        IF n = "strength" THEN 5 * s ELSE IF n = "agility" THEN 5 * a ELSE 0] :
     s \in 0..MaxTick, a \in 0..MaxTick}

\* The SecondaryAttributes blocks the model draws: wounds varies
SecondaryAttributes ==
    {[n \in Range(SecondaryAttributeName) |-> IF n = "wounds" THEN w ELSE 0] :
     w \in 0..MaxSecondary}

\* The career of the test fixture. skills and talents are lists of slots; a
\* slot is the list of its alternatives, a single skill or talent being a
\* slot of one alternative
Warrior ==
    [name |-> "Warrior", basic |-> FALSE,
     primary_attributes |->
        [n \in Range(PrimaryAttributeName) |->
            CASE n = "strength" -> 15
              [] n = "agility" -> 10
              [] n = "intelligence" -> 5
              [] n = "sociability" -> 5
              [] OTHER -> 0],
     secondary_attributes |->
        [n \in Range(SecondaryAttributeName) |-> IF n = "wounds" THEN 2 ELSE 0],
     skills |-> <<<<1>>>>,
     talents |-> <<<<1>>>>]

\* A second career, with a higher strength target and lower other targets
Veteran ==
    [name |-> "Veteran", basic |-> TRUE,
     primary_attributes |->
        [n \in Range(PrimaryAttributeName) |->
            CASE n = "strength" -> 20
              [] n = "agility" -> 5
              [] OTHER -> 0],
     secondary_attributes |->
        [n \in Range(SecondaryAttributeName) |-> IF n = "wounds" THEN 1 ELSE 0],
     skills |-> <<<<1>>, <<2, 1>>>>,
     talents |-> <<<<1>>>>]

\* The careers of the catalog; a career list holds their names
Career(name) == IF name = "Warrior" THEN Warrior ELSE Veteran

CareerNames == {"Warrior", "Veteran"}

CareerLists == UNION {[1..n -> CareerNames] : n \in 0..MaxCareers}

\* The values written to one primary attribute's advanced field: the
\* multiples of 5 up to 5 * MaxTick, and 3, which is no multiple of 5
AdvancedInputs == {5 * k : k \in 0..MaxTick} \cup {3}

Skill == 1..NumSkills

\* CharacterSkill.bonus: 0 <= bonus <= 20, a multiple of 10
CharacterSkill == [skill : Skill, bonus : {0, 10, 20}]

Talent == 1..NumTalents

NoError == [type |-> "none", rule |-> "", attr |-> ""]

ValueError(rule, attr) == [type |-> "ValueError", rule |-> rule, attr |-> attr]

TypeError == [type |-> "TypeError", rule |-> "", attr |-> ""]

AttributeError == [type |-> "AttributeError", rule |-> "", attr |-> ""]

ValidationError(attr) == [type |-> "ValidationError", rule |-> "field", attr |-> attr]

Call(op) ==
    [op |-> op, skill |-> 0, run |-> 0, all |-> FALSE, keyword |-> "", careers |-> <<>>]

----------------------------------------------------------------------------
(* Character.validate_character *)

\* The last index of names whose name is in bad, 0 when there is none
FirstBad_Last(names, bad) ==
    LET idx == {i \in 1..Len(names) : names[i] \in bad}
    IN  IF idx = {} THEN 0 ELSE CHOOSE i \in idx : \A j \in idx : i >= j

\* The first index of names whose name is in bad, 0 when there is none
FirstBad(names, bad) ==
    LET idx == {i \in 1..Len(names) : names[i] \in bad}
    IN  IF idx = {} THEN 0 ELSE CHOOSE i \in idx : \A j \in idx : i <= j

\* if not self.carrers: every advanced must be 0
CheckNoCareer(p, s) ==
    LET ip == FirstBad(PrimaryAttributeName, {n \in DOMAIN p : p[n] # 0})
        is == FirstBad(SecondaryAttributeName, {n \in DOMAIN s : s[n] # 0})
    IN  IF ip # 0 THEN ValueError("no_career", PrimaryAttributeName[ip])
        ELSE IF is # 0 THEN ValueError("no_career", SecondaryAttributeName[is])
        ELSE NoError

\* the two loops over one career's targets
CheckCeiling(career, rule, p, s) ==
    LET ip == FirstBad(PrimaryAttributeName,
                       {n \in DOMAIN p : p[n] > career.primary_attributes[n]})
        is == FirstBad(SecondaryAttributeName,
                       {n \in DOMAIN s : s[n] > career.secondary_attributes[n]})
    IN  IF ip # 0 THEN ValueError(rule, PrimaryAttributeName[ip])
        ELSE IF is # 0 THEN ValueError(rule, SecondaryAttributeName[is])
        ELSE NoError

\* the len(self.carrers) >= 1 branch: the first career's targets
CheckFirstCareer(cs, p, s) ==
    IF Len(cs) >= 1 THEN CheckCeiling(Career(cs[1]), "first_career", p, s)
    ELSE NoError

\* the len(self.carrers) > 1 branch: the current career's targets
CheckCurrentCareer(cs, p, s) ==
    IF Len(cs) > 1 THEN CheckCeiling(Career(cs[Len(cs)]), "current_career", p, s)
    ELSE NoError

\* The error validate_character raises on (carrers, primary, secondary)
validate_character(cs, p, s) ==
    IF cs = <<>> THEN CheckNoCareer(p, s)
    ELSE IF CheckFirstCareer(cs, p, s) # NoError THEN CheckFirstCareer(cs, p, s)
    ELSE CheckCurrentCareer(cs, p, s)

current_career == IF carrers # <<>> THEN Career(carrers[Len(carrers)]) ELSE "None"

----------------------------------------------------------------------------
(* Character: construction and assignment *)

\* Character(carrers=cs, primary_attributes=p, secondary_attributes=s) or
\* Character(careers=cs, primary_attributes=p, secondary_attributes=s): the
\* field is declared as carrers, and a keyword that names no field is
\* ignored, so that careers=cs leaves carrers at its default []
InitCharacter ==
    \E keyword \in {"carrers", "careers"}, cs \in CareerLists,
       p \in PrimaryAttributes, s \in SecondaryAttributes :
        /\ carrers = (IF keyword = "carrers" THEN cs ELSE <<>>)
        /\ primary_attributes = p
        /\ secondary_attributes = s
        /\ skills = {}
        /\ talents = {}
        /\ err = validate_character(carrers, p, s)
        /\ exists = (err = NoError)
        /\ last = [Call("Character") EXCEPT !.keyword = keyword, !.careers = cs]

\* character.primary_attributes = p
SetPrimaryAttributes(p) ==
    /\ exists
    /\ primary_attributes' = p
    /\ err' = validate_character(carrers, p, secondary_attributes)
    /\ last' = Call("primary_attributes")
    /\ UNCHANGED <<exists, carrers, secondary_attributes, skills, talents>>

\* character.secondary_attributes = s
SetSecondaryAttributes(s) ==
    /\ exists
    /\ secondary_attributes' = s
    /\ err' = validate_character(carrers, primary_attributes, s)
    /\ last' = Call("secondary_attributes")
    /\ UNCHANGED <<exists, carrers, primary_attributes, skills, talents>>

\* character.carrers = cs
SetCarrers(cs) ==
    /\ exists
    /\ carrers' = cs
    /\ err' = validate_character(cs, primary_attributes, secondary_attributes)
    /\ last' = Call("carrers")
    /\ UNCHANGED <<exists, primary_attributes, secondary_attributes, skills, talents>>

\* character.primary_attributes.<n>.advanced = v
SetPrimaryAdvanced(n, v) ==
    /\ exists
    /\ IF PrimaryAttribute(v)
       THEN /\ primary_attributes' = [primary_attributes EXCEPT ![n] = v]
            /\ err' = NoError
       ELSE /\ UNCHANGED primary_attributes
            /\ err' = ValidationError(n)
    /\ last' = Call("primary.advanced")
    /\ UNCHANGED <<exists, carrers, secondary_attributes, skills, talents>>

\* character.secondary_attributes.<n>.advanced = v
SetSecondaryAdvanced(n, v) ==
    /\ exists
    /\ secondary_attributes' = [secondary_attributes EXCEPT ![n] = v]
    /\ err' = NoError
    /\ last' = Call("secondary.advanced")
    /\ UNCHANGED <<exists, carrers, primary_attributes, skills, talents>>

----------------------------------------------------------------------------
(* Character: skills and talents *)

\* A lookup that compares whole entries, bonus included, instead of the
\* underlying Skill
get_existing_skill_ByEntry(stored, character_skill) ==
    {s \in stored : s = character_skill}

\* Character._get_existing_skill: the stored entries whose underlying Skill
\* equals that of character_skill (the loop returns the first it meets)
get_existing_skill(stored, character_skill) ==
    {s \in stored : s.skill = character_skill.skill}

\* A stacked bonus without the cap at 20
StackedBonus_NoCap(bonus) == bonus + 10

\* new_bonus = min(existing_skill.bonus + 10, 20)
StackedBonus(bonus) == Min(bonus + 10, 20)

\* Character.add_skill(new_skill)
add_skill(new_skill) ==
    /\ exists
    /\ LET found == get_existing_skill(skills, new_skill)
       IN  IF found # {}
           THEN \E existing_skill \in found :
                    LET new_bonus == StackedBonus(existing_skill.bonus)
                    IN  skills' = (skills \ {existing_skill}) \cup
                                  {[existing_skill EXCEPT !.bonus = new_bonus]}
           ELSE skills' = skills \cup {new_skill}
    /\ err' = NoError
    /\ last' = [op |-> "add_skill", skill |-> new_skill.skill, all |-> FALSE,
                run |-> IF get_existing_skill(skills, new_skill) = {} THEN 1
                        ELSE IF last.op = "add_skill" /\ last.run = 1
                                /\ last.skill = new_skill.skill THEN 2
                        ELSE 0]
    /\ UNCHANGED <<exists, carrers, primary_attributes, secondary_attributes, talents>>

\* Character.delete_skill(skill); with all=True the call does not bind, the
\* method declares no such parameter
delete_skill(skill, all) ==
    /\ exists
    /\ IF all
       THEN /\ err' = TypeError
            /\ UNCHANGED skills
       ELSE /\ err' = NoError
            /\ LET found == get_existing_skill(skills, skill)
               IN  IF found # {}
                   THEN \E existing_skill \in found :
                            IF existing_skill.bonus = 0
                            THEN skills' = skills \ {existing_skill}
                            ELSE skills' = (skills \ {existing_skill}) \cup
                                     {[existing_skill EXCEPT
                                          !.bonus = Max(existing_skill.bonus - 10, 0)]}
                   ELSE UNCHANGED skills
    /\ last' = [op |-> "delete_skill", skill |-> skill.skill, all |-> all, run |-> 0]
    /\ UNCHANGED <<exists, carrers, primary_attributes, secondary_attributes, talents>>

\* Character.add_talent(new_talent)
add_talent(new_talent) ==
    /\ exists
    /\ talents' = talents \cup {new_talent}
    /\ err' = NoError
    /\ last' = Call("add_talent")
    /\ UNCHANGED <<exists, carrers, primary_attributes, secondary_attributes, skills>>

\* character.delete_talent(talent): Character defines no delete_talent
delete_talent(talent) ==
    /\ exists
    /\ err' = AttributeError
    /\ last' = Call("delete_talent")
    /\ UNCHANGED <<exists, carrers, primary_attributes, secondary_attributes,
                   skills, talents>>

----------------------------------------------------------------------------
(* Money *)

\* A coercion that reduces silver modulo 20 without carrying into gold
coerce_money_NoGoldCarry(golden_crown, silver_pistol, copper_coins) ==
    LET sp1 == silver_pistol + (copper_coins \div 12)
    IN  <<golden_crown, sp1 % 20, copper_coins % 12>>

\* Money.coerce_money
coerce_money(golden_crown, silver_pistol, copper_coins) ==
    LET sp1 == silver_pistol + (copper_coins \div 12)
        cc  == copper_coins % 12
        gc  == golden_crown + (sp1 \div 20)
        sp  == sp1 % 20
    IN  <<gc, sp, cc>>

\* Money.validate_money: the fields after the model validator has run
validate_money(self) == coerce_money(self[1], self[2], self[3])

\* The three fields, in the order of the triple
MoneyField == <<"golden_crown", "silver_pistol", "copper_coins">>

\* Money(golden_crown=m[1], silver_pistol=m[2], copper_coins=m[3]), m >= 0
NewMoney(m) == validate_money(m)

\* An addition that takes the copper of self twice
MoneyAdd_CopperOfSelf(self, other) ==
    [op |-> "add", ok |-> TRUE,
     val |-> NewMoney(<<self[1] + other[1], self[2] + other[2], self[3] + self[3]>>)]

\* Money.__add__
MoneyAdd(self, other) ==
    LET gc == self[1] + other[1]
        sp == self[2] + other[2]
        cc == self[3] + other[3]
        c  == coerce_money(gc, sp, cc)
    IN  [op |-> "add", ok |-> TRUE, val |-> NewMoney(c)]

\* A subtraction whose silver is not reduced modulo 240 first
MoneySub_SilverNotReduced(self, other) ==
    LET total_cc_self  == self[1] * 240 + self[2] * 12 + self[3]
        total_cc_other == other[1] * 240 + other[2] * 12 + other[3]
        total_cc_result == total_cc_self - total_cc_other
    IN  IF total_cc_self < total_cc_other
        THEN [op |-> "sub", ok |-> FALSE, val |-> <<0, 0, 0>>]
        ELSE [op |-> "sub", ok |-> TRUE,
              val |-> NewMoney(<<total_cc_result \div 240, total_cc_result \div 12,
                                 total_cc_result % 12>>)]

\* Money.__sub__
MoneySub(self, other) ==
    LET total_cc_self  == self[1] * 240 + self[2] * 12 + self[3]
        total_cc_other == other[1] * 240 + other[2] * 12 + other[3]
        total_cc_result == total_cc_self - total_cc_other
        gc == total_cc_result \div 240
        sp == (total_cc_result % 240) \div 12
        cc == total_cc_result % 12
    IN  IF total_cc_self < total_cc_other
        THEN [op |-> "sub", ok |-> FALSE, val |-> <<0, 0, 0>>]
        ELSE [op |-> "sub", ok |-> TRUE, val |-> NewMoney(<<gc, sp, cc>>)]

\* m.<field f> = v: a negative v fails the field's ge=0, else the value is
\* stored and validate_money runs; gold is capped to keep the model finite
SetMoneyField(f, v) ==
    /\ money[1] <= MaxGold
    /\ IF v < 0
       THEN /\ err' = ValidationError(MoneyField[f])
            /\ UNCHANGED <<money, moneyRaw>>
       ELSE /\ err' = NoError
            /\ moneyRaw' = [money EXCEPT ![f] = v]
            /\ money' = validate_money([money EXCEPT ![f] = v])
    /\ last' = Call(MoneyField[f])

\* The copper amounts a Money is built from or assigned: 0..MaxCopper and
\* the amounts of test_coerce_money and test_money_validation_coercer
CopperCoins == 0..MaxCopper \cup {50, 250, 300}

\* opRes = opA + opB
Add ==
    /\ opRes' = MoneyAdd(opA, opB)
    /\ UNCHANGED <<opA, opB, opC>>

\* opRes = opA - opB
Sub ==
    /\ opRes' = MoneySub(opA, opB)
    /\ UNCHANGED <<opA, opB, opC>>

\* The inputs the operands of the arithmetic are built from
SilverInputs == {0, 1, 19}

CopperInputs == {0, 1, 11}

Operands ==
    {NewMoney(<<g, s, c>>) : g \in 0..MaxOpGold, s \in SilverInputs, c \in CopperInputs}

----------------------------------------------------------------------------
(* DicePool: strings are sequences of one-character strings *)

Digit == <<"0", "1", "2", "3", "4", "5", "6", "7", "8", "9">>

IsDigit(c) == \E d \in 1..10 : Digit[d] = c

\* int(s) for a string of digits
RECURSIVE int(_)
int(s) ==
    IF s = <<>> THEN 0
    ELSE 10 * int(SubSeq(s, 1, Len(s) - 1))
         + (CHOOSE d \in 0..9 : Digit[d + 1] = s[Len(s)])

\* int(m) for a match of [+-]\d+
SignedInt(m) == IF m[1] = "-" THEN 0 - int(Tail(m)) ELSE int(Tail(m))

\* str(n) for n >= 0
RECURSIVE str(_)
str(n) == IF n < 10 THEN <<Digit[n + 1]>> ELSE str(n \div 10) \o <<Digit[(n % 10) + 1]>>

\* \d+ at position i of s: the length of the run of digits that starts there
RECURSIVE DigitRun(_, _)
DigitRun(s, i) == IF i <= Len(s) /\ IsDigit(s[i]) THEN 1 + DigitRun(s, i + 1) ELSE 0

\* re.finditer(r'(\d+)d(\d+)', s), searching from position i: the matches in
\* order, each with its two groups and the positions start <= k < end it covers
RECURSIVE re_finditer(_, _)
re_finditer(s, i) ==
    IF i > Len(s) THEN <<>>
    ELSE LET a == DigitRun(s, i)
             b == DigitRun(s, i + a + 1)
         IN IF a > 0 /\ i + a <= Len(s) /\ s[i + a] = "d" /\ b > 0
            THEN <<[group1 |-> SubSeq(s, i, i + a - 1),
                    group2 |-> SubSeq(s, i + a + 1, i + a + b),
                    start |-> i, end |-> i + a + b + 1]>>
                 \o re_finditer(s, i + a + b + 1)
            ELSE re_finditer(s, i + 1)

\* re.sub(r'(\d+)d(\d+)', '', s) from position i: s without the matches
RECURSIVE re_sub(_, _, _)
re_sub(s, matches, i) ==
    IF i > Len(s) THEN <<>>
    ELSE (IF \E k \in 1..Len(matches) : matches[k].start <= i /\ i < matches[k].end
          THEN <<>> ELSE <<s[i]>>)
         \o re_sub(s, matches, i + 1)

\* s.replace(old, new): the occurrences of old, left to right, not overlapping
RECURSIVE replace(_, _, _)
replace(s, old, new) ==
    IF Len(s) < Len(old) THEN s
    ELSE IF SubSeq(s, 1, Len(old)) = old
         THEN new \o replace(SubSeq(s, Len(old) + 1, Len(s)), old, new)
         ELSE <<s[1]>> \o replace(Tail(s), old, new)

\* re.findall(r'([+-]\d+)', s), searching from position i
RECURSIVE re_findall(_, _)
re_findall(s, i) ==
    IF i > Len(s) THEN <<>>
    ELSE LET a == DigitRun(s, i + 1)
         IN IF s[i] \in {"+", "-"} /\ a > 0
            THEN <<SubSeq(s, i, i + a)>> \o re_findall(s, i + a + 1)
            ELSE re_findall(s, i + 1)

\* A dict from face counts to dice counts
EmptyDices == [f \in {} |-> 0]

\* dices after the loop over the first k matches:
\* dices[n_face] = dices.get(n_face, 0) + n_dice
RECURSIVE AccumulateDices(_, _)
AccumulateDices(matches, k) ==
    IF k = 0 THEN EmptyDices
    ELSE LET dices == AccumulateDices(matches, k - 1)
             n_dice == int(matches[k].group1)
             n_face == int(matches[k].group2)
         IN [f \in DOMAIN dices \cup {n_face} |->
                (IF f \in DOMAIN dices THEN dices[f] ELSE 0)
                + (IF f = n_face THEN n_dice ELSE 0)]

\* sum(int(m) for m in mod_matches)
RECURSIVE SumModifiers(_)
SumModifiers(mod_matches) ==
    IF mod_matches = <<>> THEN 0
    ELSE SignedInt(Head(mod_matches)) + SumModifiers(Tail(mod_matches))

\* What a call of DicePool(...) or DicePool.from_string(...) gives
DicePool(dices, modifier) == [type |-> "DicePool", dices |-> dices, modifier |-> modifier]

InvalidDicePool == [type |-> "ValueError", dices |-> EmptyDices, modifier |-> 0]

NoDicePool == [type |-> "none", dices |-> EmptyDices, modifier |-> 0]

\* DicePool.from_string(pool_str)
from_string(s) ==
    LET matches == re_finditer(s, 1)
        rest0 == re_sub(s, matches, 1)
        rest1 == replace(replace(replace(replace(rest0,
                     <<"+", "+">>, <<"+">>), <<"-", "-">>, <<"+">>),
                     <<"+", "-">>, <<"-">>), <<"-", "+">>, <<"-">>)
        rest == replace(rest1, <<" ">>, <<>>)
        mod_matches == re_findall(rest, 1)
    IN IF matches = <<>> THEN InvalidDicePool
       ELSE DicePool(AccumulateDices(matches, Len(matches)),
                     IF rest # <<>> THEN SumModifiers(mod_matches) ELSE 0)

\* The dice expressions the model draws: a sequence of terms, each a dice
\* term NdM or a signed integer modifier
Faces == {4, 6}

Signs == {<<"+">>, <<"-">>, <<"+", "+">>, <<"-", "-">>, <<"+", "-">>, <<"-", "+">>}

\* where a modifier is written with blanks: nowhere ("--2"), around its
\* signs (" -- 2"), before each of its signs (" - -2")
Spacing == {"none", "around", "each"}

DiceTerm(n, m) ==
    [kind |-> "dice", n_dice |-> n, n_face |-> m,
     signs |-> <<"+">>, spacing |-> "none", value |-> 0]

ModifierTerm(signs, spacing, value) ==
    [kind |-> "modifier", n_dice |-> 0, n_face |-> 0,
     signs |-> signs, spacing |-> spacing, value |-> value]

Terms ==
    {DiceTerm(n, m) : n \in 1..MaxDice, m \in Faces}
    \cup {ModifierTerm(g, w, v) : g \in Signs, w \in Spacing, v \in 1..MaxModifier}

Expressions == UNION {[1..k -> Terms] : k \in 1..MaxTerms}

\* A term as it is written; a dice term that is not the first follows a "+"
WriteTerm(t, first) ==
    IF t.kind = "dice"
    THEN (IF first THEN <<>> ELSE <<"+">>) \o str(t.n_dice) \o <<"d">> \o str(t.n_face)
    ELSE CASE t.spacing = "none" -> t.signs \o str(t.value)
           [] t.spacing = "around" -> <<" ">> \o t.signs \o <<" ">> \o str(t.value)
           [] t.spacing = "each" ->
                <<" ", t.signs[1]>>
                \o (IF Len(t.signs) = 2 THEN <<" ", t.signs[2]>> ELSE <<>>)
                \o str(t.value)

\* The first k terms of an expression as they are written
RECURSIVE WriteExpression(_, _)
WriteExpression(expr, k) ==
    IF k = 0 THEN <<>>
    ELSE WriteExpression(expr, k - 1) \o WriteTerm(expr[k], k = 1)

NoRoll == [type |-> "none", draws |-> EmptyDices, value |-> 0]

\* pool = DicePool.from_string(pool_str)
FromString ==
    /\ pool = NoDicePool
    /\ pool' = from_string(pool_str)
    /\ UNCHANGED <<pool_expr, pool_str, rolled>>

\* sum(xs) for a list of integers
RECURSIVE SumList(_)
SumList(xs) == IF xs = <<>> THEN 0 ELSE Head(xs) + SumList(Tail(xs))

\* sum(d[k] for k in keys) for a dict d of integers
RECURSIVE SumDict(_, _)
SumDict(d, keys) ==
    IF keys = {} THEN 0
    ELSE LET k == CHOOSE x \in keys : TRUE
         IN d[k] + SumDict(d, keys \ {k})

\* k values of 1..n, the same value allowed at several positions
sample_Repeating(n, k) == [1..k -> 1..n]

\* random.sample(range(1, n + 1), k) for k <= n: the lists of k values of
\* 1..n taken from k different positions of the range
sample(n, k) == {xs \in [1..k -> 1..n] : \A i, j \in 1..k : i # j => xs[i] # xs[j]}

\* The dice pools the model rolls: the faces of RollFaces, each absent or
\* with 0..MaxCount dice, and a modifier of RollModifiers
RollFaces == {2, 6}

RollModifiers == {0 - 1, 0, 3}

RollPools ==
    {DicePool(d, m) :
        d \in UNION {[fs -> 0..MaxCount] : fs \in SUBSET RollFaces},
        m \in RollModifiers}

\* The lists roll() can draw for the entries n_face of a pool: for each
\* n_face, sample(range(1, n_face + 1), n_dice)
RECURSIVE Samples(_, _)
Samples(dices, faces) ==
    IF faces = {} THEN {EmptyDices}
    ELSE LET n_face == CHOOSE f \in faces : TRUE
         IN {[f \in DOMAIN rest \cup {n_face} |-> IF f = n_face THEN xs ELSE rest[f]] :
                rest \in Samples(dices, faces \ {n_face}),
                xs \in sample(n_face, dices[n_face])}

\* rolled = pool.roll(): random.sample raises ValueError when an entry asks
\* for more dice than it has faces
Roll ==
    /\ pool.type = "DicePool"
    /\ IF \A f \in DOMAIN pool.dices : pool.dices[f] <= f
       THEN \E draws \in Samples(pool.dices, DOMAIN pool.dices) :
              /\ rolled' = [type |-> "int", draws |-> draws,
                            value |-> SumDict([f \in DOMAIN draws |-> SumList(draws[f])],
                                              DOMAIN draws)
                                      + pool.modifier]
       ELSE rolled' = [type |-> "ValueError", draws |-> EmptyDices, value |-> 0]
    /\ UNCHANGED <<pool_expr, pool_str, pool>>

----------------------------------------------------------------------------
(* Career.career_experience_amount and Experience *)

\* The skills or talents a drawn career lists
SlotLists == {<<>>, <<<<1>>>>, <<<<1>>, <<2, 1>>>>}

\* The careers the model reads the experience amount of: the fixture with
\* its basic flag, three of its targets and its slots redrawn
Careers ==
    {[Warrior EXCEPT !.basic = b,
                     !.primary_attributes["strength"] = s,
                     !.primary_attributes["fight_capacity"] = f,
                     !.secondary_attributes["wounds"] = w,
                     !.skills = sk,
                     !.talents = tl] :
        b \in BOOLEAN, s \in 0..MaxTarget, f \in {0, 7}, w \in 0..MaxSecondary,
        sk \in SlotLists, tl \in SlotLists}

\* career_experience_amount with the slots counted for a basic career too
career_experience_amount_SlotsAlways(self) ==
    SumDict([n \in DOMAIN self.primary_attributes |->
                (self.primary_attributes[n] \div 5) * 100],
            DOMAIN self.primary_attributes)
    + SumDict([n \in DOMAIN self.secondary_attributes |->
                  self.secondary_attributes[n] * 100],
              DOMAIN self.secondary_attributes)
    + Len(self.skills) * 100 + Len(self.talents) * 100

\* Career.career_experience_amount
career_experience_amount(self) ==
    SumDict([n \in DOMAIN self.primary_attributes |->
                (self.primary_attributes[n] \div 5) * 100],
            DOMAIN self.primary_attributes)
    + SumDict([n \in DOMAIN self.secondary_attributes |->
                  self.secondary_attributes[n] * 100],
              DOMAIN self.secondary_attributes)
    + (IF ~self.basic
       THEN Len(self.skills) * 100 + Len(self.talents) * 100
       ELSE 0)

NotRead == [read |-> FALSE, value |-> 0]

\* Experience(): total 0, spent 0
NoExperience ==
    [total |-> 0, spent |-> 0, read |-> FALSE, available |-> 0, spendable_ticks |-> 0]

\* Experience(total=total, spent=spent): total >= 0, spent >= 0 and a
\* multiple of 100
Experience(total, spent) ==
    [total |-> total, spent |-> spent, read |-> FALSE,
     available |-> 0, spendable_ticks |-> 0]

Experiences ==
    {Experience(50 * t, 100 * s) : t \in 0..MaxTotal, s \in 0..MaxSpent}

\* Experience.available
available(self) == self.total - self.spent

\* Experience.spendable_ticks
spendable_ticks(self) == available(self) % 100

\* experience.available and experience.spendable_ticks are read
ReadExperience ==
    /\ experience' = [experience EXCEPT !.read = TRUE,
                                        !.available = available(experience),
                                        !.spendable_ticks = spendable_ticks(experience)]
    /\ UNCHANGED <<a_career, amount>>

\* amount = a_career.career_experience_amount
ReadAmount ==
    /\ amount' = [read |-> TRUE, value |-> career_experience_amount(a_career)]
    /\ UNCHANGED <<a_career, experience>>

----------------------------------------------------------------------------
(* Specifications *)

IdleCharacter ==
    /\ exists = FALSE
    /\ carrers = <<>>
    /\ primary_attributes = [n \in Range(PrimaryAttributeName) |-> 0]
    /\ secondary_attributes = [n \in Range(SecondaryAttributeName) |-> 0]
    /\ skills = {}
    /\ talents = {}

IdleMoney ==
    /\ money = <<0, 0, 0>>
    /\ moneyRaw = <<0, 0, 0>>

IdleArith ==
    /\ opA = <<0, 0, 0>>
    /\ opB = <<0, 0, 0>>
    /\ opC = <<0, 0, 0>>
    /\ opRes = [op |-> "none", ok |-> TRUE, val |-> <<0, 0, 0>>]

IdleDice ==
    /\ pool_expr = <<>>
    /\ pool_str = <<>>
    /\ pool = NoDicePool
    /\ rolled = NoRoll

IdleSheet ==
    /\ a_career = Warrior
    /\ amount = NotRead
    /\ experience = NoExperience

(* Spec: a Character, its validated assignments, the direct writes to one
   attribute, its talents *)
Init == InitCharacter /\ IdleMoney /\ IdleArith /\ IdleDice /\ IdleSheet

Next ==
    \/ \E n \in {"strength", "agility"}, v \in AdvancedInputs :
          SetPrimaryAdvanced(n, v) /\ UNCHANGED <<moneyVars, arithVars, diceVars, sheetVars>>
    \/ \E v \in 0..MaxSecondary :
          SetSecondaryAdvanced("wounds", v) /\ UNCHANGED <<moneyVars, arithVars, diceVars, sheetVars>>
    \/ \E p \in PrimaryAttributes : SetPrimaryAttributes(p) /\ UNCHANGED <<moneyVars, arithVars, diceVars, sheetVars>>
    \/ \E s \in SecondaryAttributes : SetSecondaryAttributes(s) /\ UNCHANGED <<moneyVars, arithVars, diceVars, sheetVars>>
    \/ \E cs \in CareerLists : SetCarrers(cs) /\ UNCHANGED <<moneyVars, arithVars, diceVars, sheetVars>>
    \/ \E t \in Talent : add_talent(t) /\ UNCHANGED <<moneyVars, arithVars, diceVars, sheetVars>>
    \/ \E t \in Talent : delete_talent(t) /\ UNCHANGED <<moneyVars, arithVars, diceVars, sheetVars>>

Spec == Init /\ [][Next]_vars

(* SpecSkills: the Character of the test fixture, constructed with
   careers=[career] (no career stored, every advanced 0, no skill, no talent)
   under add_skill, delete_skill, add_talent, delete_talent *)
InitSkills ==
    /\ InitCharacter
    /\ last.keyword = "careers"
    /\ last.careers = <<"Warrior">>
    /\ exists
    /\ IdleMoney
    /\ IdleArith
    /\ IdleDice
    /\ IdleSheet

NextSkills ==
    \/ \E cs \in CharacterSkill : add_skill(cs) /\ UNCHANGED <<moneyVars, arithVars, diceVars, sheetVars>>
    \/ \E cs \in CharacterSkill, all \in BOOLEAN :
          delete_skill(cs, all) /\ UNCHANGED <<moneyVars, arithVars, diceVars, sheetVars>>
    \/ \E t \in Talent : add_talent(t) /\ UNCHANGED <<moneyVars, arithVars, diceVars, sheetVars>>
    \/ \E t \in Talent : delete_talent(t) /\ UNCHANGED <<moneyVars, arithVars, diceVars, sheetVars>>

SpecSkills == InitSkills /\ [][NextSkills]_vars

(* SpecMoney: one Money object, constructed and assigned to *)
InitMoney ==
    /\ IdleCharacter
    /\ IdleArith
    /\ IdleDice
    /\ IdleSheet
    /\ \E g \in 0..MaxGold, s \in 0..MaxSilver, c \in CopperCoins :
          /\ moneyRaw = <<g, s, c>>
          /\ money = NewMoney(<<g, s, c>>)
    /\ err = NoError
    /\ last = Call("Money")

NextMoney ==
    \/ \E v \in -1..MaxGold :
          /\ SetMoneyField(1, v)
          /\ UNCHANGED <<exists, carrers, primary_attributes, secondary_attributes,
                         skills, talents, arithVars, diceVars, sheetVars>>
    \/ \E v \in -1..MaxSilver :
          /\ SetMoneyField(2, v)
          /\ UNCHANGED <<exists, carrers, primary_attributes, secondary_attributes,
                         skills, talents, arithVars, diceVars, sheetVars>>
    \/ \E v \in {-1} \cup CopperCoins :
          /\ SetMoneyField(3, v)
          /\ UNCHANGED <<exists, carrers, primary_attributes, secondary_attributes,
                         skills, talents, arithVars, diceVars, sheetVars>>

SpecMoney == InitMoney /\ [][NextMoney]_vars

(* SpecArith: Money.__add__ and Money.__sub__ on three normalized operands *)
InitArith ==
    /\ IdleCharacter
    /\ IdleMoney
    /\ IdleDice
    /\ IdleSheet
    /\ err = NoError
    /\ last = Call("Money")
    /\ opA \in Operands
    /\ opB \in Operands
    /\ opC \in Operands
    /\ opRes = [op |-> "none", ok |-> TRUE, val |-> <<0, 0, 0>>]

NextArith ==
    \/ Add /\ UNCHANGED <<characterVars, moneyVars, diceVars, sheetVars>>
    \/ Sub /\ UNCHANGED <<characterVars, moneyVars, diceVars, sheetVars>>

SpecArith == InitArith /\ [][NextArith]_vars

(* SpecParse: DicePool.from_string on the expressions of Expressions *)
InitParse ==
    /\ IdleCharacter
    /\ IdleMoney
    /\ IdleArith
    /\ IdleSheet
    /\ err = NoError
    /\ last = Call("DicePool")
    /\ pool_expr \in Expressions
    /\ pool_str = WriteExpression(pool_expr, Len(pool_expr))
    /\ pool = NoDicePool
    /\ rolled = NoRoll

NextParse ==
    \/ FromString /\ UNCHANGED <<characterVars, moneyVars, arithVars, sheetVars>>

SpecParse == InitParse /\ [][NextParse]_vars

(* SpecRoll: DicePool.roll on the pools of RollPools *)
InitRoll ==
    /\ IdleCharacter
    /\ IdleMoney
    /\ IdleArith
    /\ IdleSheet
    /\ err = NoError
    /\ last = Call("DicePool")
    /\ pool_expr = <<>>
    /\ pool_str = <<>>
    /\ pool \in RollPools
    /\ rolled = NoRoll

NextRoll ==
    \/ Roll /\ UNCHANGED <<characterVars, moneyVars, arithVars, sheetVars>>

SpecRoll == InitRoll /\ [][NextRoll]_vars

(* SpecCareer: career_experience_amount read from the careers of Careers *)
InitCareer ==
    /\ IdleCharacter
    /\ IdleMoney
    /\ IdleArith
    /\ IdleDice
    /\ err = NoError
    /\ last = Call("Career")
    /\ a_career \in Careers
    /\ amount = NotRead
    /\ experience = NoExperience

NextCareer ==
    \/ ReadAmount /\ UNCHANGED <<characterVars, moneyVars, arithVars, diceVars>>

SpecCareer == InitCareer /\ [][NextCareer]_vars

(* SpecExperience: available and spendable_ticks read from the Experiences *)
InitExperience ==
    /\ IdleCharacter
    /\ IdleMoney
    /\ IdleArith
    /\ IdleDice
    /\ err = NoError
    /\ last = Call("Experience")
    /\ a_career = Warrior
    /\ amount = NotRead
    /\ experience \in Experiences

NextExperience ==
    \/ ReadExperience /\ UNCHANGED <<characterVars, moneyVars, arithVars, diceVars>>

SpecExperience == InitExperience /\ [][NextExperience]_vars

----------------------------------------------------------------------------
(* Properties of the Character's validation *)

\* Every advanced value of (p, s) is at most the career's target
WithinTargets(career, p, s) ==
    /\ \A n \in Range(PrimaryAttributeName) : p[n] <= career.primary_attributes[n]
    /\ \A n \in Range(SecondaryAttributeName) : s[n] <= career.secondary_attributes[n]

AllAdvancedZero(p, s) ==
    /\ \A n \in Range(PrimaryAttributeName) : p[n] = 0
    /\ \A n \in Range(SecondaryAttributeName) : s[n] = 0

\* The calls that run validate_character
Validated == {"Character", "primary_attributes", "secondary_attributes", "carrers"}

\* C1: in every reachable state of a Character with no applied career, every
\* primary and every secondary attribute has advanced = 0.
C1_UncareeredAdvancedZero ==
    (exists /\ carrers = <<>>) =>
        AllAdvancedZero(primary_attributes, secondary_attributes)

\* C2: on a Character with exactly one applied career, setting an
\* attribute's advanced value to v (by replacing the attribute block or by
\* writing the advanced field of one attribute) raises an error when v
\* exceeds the career's target for that attribute and raises none when every
\* value set is at most its target.
C2_FirstCareerCeiling ==
    [][(exists /\ Len(carrers) = 1) =>
          /\ \A n \in {"strength", "agility"}, v \in AdvancedInputs :
                (PrimaryAttribute(v) /\ SetPrimaryAdvanced(n, v)) =>
                    (err' # NoError <=> v > Career(carrers[1]).primary_attributes[n])
          /\ \A v \in 0..MaxSecondary :
                SetSecondaryAdvanced("wounds", v) =>
                    (err' # NoError <=> v > Career(carrers[1]).secondary_attributes["wounds"])
          /\ \A p \in PrimaryAttributes :
                SetPrimaryAttributes(p) =>
                    ((\E n \in Range(PrimaryAttributeName) :
                         p[n] > Career(carrers[1]).primary_attributes[n])
                       => err' # NoError)
          /\ \A s \in SecondaryAttributes :
                SetSecondaryAttributes(s) =>
                    ((\E n \in Range(SecondaryAttributeName) :
                         s[n] > Career(carrers[1]).secondary_attributes[n])
                       => err' # NoError)
      ]_vars

\* C3: with two or more applied careers, validate_character accepts exactly
\* when every advanced value is at most the target of the last career.
C3_CurrentCareerOnly ==
    (Len(carrers) >= 2 /\ last.op \in Validated) =>
        (err = NoError <=>
            WithinTargets(current_career, primary_attributes, secondary_attributes))

\* The mutating operations C4 names
Mutators ==
    {"primary_attributes", "secondary_attributes", "carrers",
     "add_skill", "delete_skill", "add_talent", "delete_talent"}

\* C4: every mutating operation either commits a state that satisfies all
\* validation rules, or raises an error and leaves carrers, the attribute
\* blocks, the skills and the talents as they were.
C4_AtomicMutation ==
    [][(last'.op \in Mutators) =>
          IF err' = NoError
          THEN validate_character(carrers', primary_attributes',
                                  secondary_attributes') = NoError
          ELSE UNCHANGED <<carrers, primary_attributes, secondary_attributes,
                           skills, talents>>
      ]_vars

----------------------------------------------------------------------------
(* Properties of Money *)

\* The copper-equivalent value of a triple
TotalCopper(m) == m[1] * 240 + m[2] * 12 + m[3]

Normalized(m) ==
    /\ m[1] >= 0
    /\ m[2] >= 0 /\ m[2] < 20
    /\ m[3] >= 0 /\ m[3] < 12

\* C5: after construction from non-negative fields and after every
\* assignment of a non-negative value to one field, the stored triple has
\* 0 <= copper < 12 and 0 <= silver < 20 and the copper-equivalent value of
\* the triple validation started from; (0, 0, 300) becomes (1, 5, 0).
C5_MoneyNormalized ==
    /\ Normalized(money)
    /\ TotalCopper(money) = TotalCopper(moneyRaw)
    /\ moneyRaw = <<0, 0, 300>> => money = <<1, 5, 0>>

\* (1, 19, 11) with copper_coins increased by 20 has golden_crown 2
C5_Witness ==
    /\ last.op = "copper_coins"
    /\ err = NoError
    /\ moneyRaw = <<1, 19, 31>>
    /\ money = <<2, 1, 7>>

\* C6: on normalized a and b, a - b raises exactly when the value of a is
\* less than the value of b; otherwise it returns a normalized Money whose
\* value is the difference of the values, zero for a - a; a and b are left
\* as they were.
C6_Subtract ==
    /\ [](/\ Normalized(opA) /\ Normalized(opB)
          /\ opRes.op = "sub" =>
               /\ opRes.ok <=> ~(TotalCopper(opA) < TotalCopper(opB))
               /\ opRes.ok =>
                    /\ Normalized(opRes.val)
                    /\ TotalCopper(opRes.val) = TotalCopper(opA) - TotalCopper(opB)
                    /\ (opA = opB => opRes.val = <<0, 0, 0>>))
    /\ [][opRes'.op = "sub" => (opA' = opA /\ opB' = opB)]_vars

\* 1 golden crown minus 1 copper coin borrows through both denominations
C6_Witness ==
    /\ opRes.op = "sub"
    /\ opRes.ok
    /\ opA = <<1, 0, 0>>
    /\ opB = <<0, 0, 1>>
    /\ opRes.val = <<0, 19, 11>>

\* C7: on normalized a, b, c, a + b never raises and is the normalized
\* componentwise sum; a + b = b + a and (a + b) + c = a + (b + c).
C7_AddCommutativeAssociative ==
    /\ MoneyAdd(opA, opB).ok /\ MoneyAdd(opB, opC).ok
    /\ MoneyAdd(opA, opB).val = MoneyAdd(opB, opA).val
    /\ MoneyAdd(MoneyAdd(opA, opB).val, opC).val
         = MoneyAdd(opA, MoneyAdd(opB, opC).val).val
    /\ opRes.op = "add" =>
         /\ opRes.ok
         /\ Normalized(opRes.val)
         /\ TotalCopper(opRes.val) = TotalCopper(opA) + TotalCopper(opB)

\* 19 silver 11 copper plus 1 copper carries through both denominations
C7_Witness ==
    /\ opRes.op = "add"
    /\ opA = <<0, 19, 11>>
    /\ opB = <<0, 0, 1>>
    /\ opC = <<1, 1, 1>>
    /\ opRes.val = <<1, 0, 0>>

----------------------------------------------------------------------------
(* Properties of the skill set *)

\* The stored entries whose underlying Skill is k
EntriesOf(stored, k) == {s \in stored : s.skill = k}

C10_DeleteSkill ==
    [][\A cs \in CharacterSkill, all \in BOOLEAN :
          (delete_skill(cs, all) /\ EntriesOf(skills, cs.skill) # {}) =>
             \E e \in EntriesOf(skills, cs.skill) :
                IF all \/ e.bonus = 0
                THEN EntriesOf(skills', cs.skill) = {}
                ELSE EntriesOf(skills', cs.skill) =
                        {[skill |-> cs.skill, bonus |-> e.bonus - 10]}
      ]_vars

----------------------------------------------------------------------------
(* Properties of DicePool *)

\* The sign a run of signs collapses to: - when it holds an odd number of -
Collapsed(signs) ==
    IF Cardinality({i \in DOMAIN signs : signs[i] = "-"}) % 2 = 1 THEN 0 - 1 ELSE 1

\* The total of N over the dice terms NdM, among the first k terms, with M = m
RECURSIVE TotalDice(_, _, _)
TotalDice(expr, k, m) ==
    IF k = 0 THEN 0
    ELSE TotalDice(expr, k - 1, m)
         + (IF expr[k].kind = "dice" /\ expr[k].n_face = m THEN expr[k].n_dice ELSE 0)

\* The sum of the signed modifiers among the first k terms
RECURSIVE TotalModifier(_, _)
TotalModifier(expr, k) ==
    IF k = 0 THEN 0
    ELSE TotalModifier(expr, k - 1)
         + (IF expr[k].kind = "modifier"
            THEN Collapsed(expr[k].signs) * expr[k].value ELSE 0)

FacesOf(expr) == {expr[k].n_face : k \in {j \in DOMAIN expr : expr[j].kind = "dice"}}

\* C11: parsing an expression of NdM terms and signed modifiers, written with
\* optional blanks and repeated signs, gives the dice map that maps each
\* face count to the total of N over its terms and the modifier that is the
\* sum of the modifiers after sign collapsing; an expression with no NdM
\* term fails
C11_FromString ==
    pool # NoDicePool =>
        IF FacesOf(pool_expr) = {} THEN pool = InvalidDicePool
        ELSE pool = DicePool([m \in FacesOf(pool_expr) |->
                                TotalDice(pool_expr, Len(pool_expr), m)],
                             TotalModifier(pool_expr, Len(pool_expr)))

PairwiseDistinct(xs) == \A i, j \in DOMAIN xs : i # j => xs[i] # xs[j]

\* C12: on a pool whose entries all have count <= faces, every outcome of
\* roll() is an integer r with (sum of counts) + modifier <= r <=
\* (sum of count * faces) + modifier, the modifier plus, for each entry,
\* the sum of count pairwise distinct values of 1..faces
C12_Roll ==
    (rolled # NoRoll /\ \A f \in DOMAIN pool.dices : pool.dices[f] <= f) =>
        /\ rolled.type = "int"
        /\ DOMAIN rolled.draws = DOMAIN pool.dices
        /\ \A f \in DOMAIN pool.dices :
              /\ Len(rolled.draws[f]) = pool.dices[f]
              /\ \A i \in DOMAIN rolled.draws[f] : rolled.draws[f][i] \in 1..f
              /\ PairwiseDistinct(rolled.draws[f])
        /\ rolled.value = pool.modifier
              + SumDict([f \in DOMAIN pool.dices |-> SumList(rolled.draws[f])],
                        DOMAIN pool.dices)
        /\ SumDict(pool.dices, DOMAIN pool.dices) + pool.modifier <= rolled.value
        /\ rolled.value <= SumDict([f \in DOMAIN pool.dices |-> pool.dices[f] * f],
                                   DOMAIN pool.dices) + pool.modifier
        /\ (pool = DicePool([f \in {6} |-> 2], 3) => rolled.value \in 5..15)

\* a roll of {6: 2} with modifier 3 that drew 6 and 5
C12_Witness ==
    /\ pool = DicePool([f \in {6} |-> 2], 3)
    /\ rolled.type = "int"
    /\ rolled.draws[6] = <<6, 5>>
    /\ rolled.value = 14

----------------------------------------------------------------------------
(* Properties of Career and Experience *)

\* C13: career_experience_amount is the sum over the 8 primary targets of
\* (target // 5) * 100, plus the sum over the 4 secondary targets of
\* target * 100, plus, only for a career that is not basic, 100 for each
\* skill slot and each talent slot, a tuple of alternatives being one slot
C13_CareerExperienceAmount ==
    amount.read =>
        LET p == a_career.primary_attributes
            s == a_career.secondary_attributes
        IN amount.value =
              (p["fight_capacity"] \div 5) * 100 + (p["shooting_capacity"] \div 5) * 100
              + (p["strength"] \div 5) * 100 + (p["toughness"] \div 5) * 100
              + (p["agility"] \div 5) * 100 + (p["intelligence"] \div 5) * 100
              + (p["mental_strength"] \div 5) * 100 + (p["sociability"] \div 5) * 100
              + s["attack"] * 100 + s["wounds"] * 100
              + s["magic_point"] * 100 + s["movement"] * 100
              + (IF a_career.basic THEN 0
                 ELSE 100 * (Len(a_career.skills) + Len(a_career.talents)))

\* the career of the fixture, read: 1100
C13_Witness ==
    /\ a_career = Warrior
    /\ amount = [read |-> TRUE, value |-> 1100]

\* C18: for an Experience with total >= spent, available is total - spent
\* and spendable_ticks is the number of whole 100-point ticks in available
\* (total 2000 and spent 1800: available 200, spendable_ticks 2)
C18_SpendableTicks ==
    (experience.read /\ experience.total >= experience.spent) =>
        /\ experience.available = experience.total - experience.spent
        /\ experience.spendable_ticks = experience.available \div 100

----------------------------------------------------------------------------
(* Properties of the Character's construction and career history *)

\* C14: a Character constructed with careers=cs stores cs, in order, as its
\* career history, and current_career is the last element of cs; one
\* constructed with careers=[] has an empty history and no current career
C14_ConstructedWithCareers ==
    (exists /\ last.op = "Character" /\ last.keyword = "careers") =>
        /\ carrers = last.careers
        /\ IF last.careers = <<>> THEN carrers = <<>>
           ELSE /\ carrers # <<>>
                /\ current_career = Career(last.careers[Len(last.careers)])

\* C15: the career history is append-only: a step the Character accepts
\* leaves the career list as it was or appends careers at its end; it never
\* removes a career, reorders careers or shortens the list
C15_AppendOnly ==
    [][(exists /\ err' = NoError) =>
          /\ Len(carrers) <= Len(carrers')
          /\ SubSeq(carrers', 1, Len(carrers)) = carrers
      ]_vars

\* C16: after a construction or a career assignment the Character accepted,
\* a current career marked basic has each of its skill slots and talent
\* slots, resolved to its first alternative, among the Character's skills
\* and talents
C16_BasicCareerGrants ==
    (exists /\ err = NoError /\ last.op \in {"Character", "carrers"}
        /\ carrers # <<>> /\ current_career.basic) =>
        /\ \A k \in DOMAIN current_career.skills :
              \E e \in skills : e.skill = current_career.skills[k][1]
        /\ \A k \in DOMAIN current_career.talents :
              current_career.talents[k][1] \in talents

\* The rules in the order validate_character examines them, and the
\* attributes in the order each rule examines them
RuleOrder == <<"no_career", "first_career", "current_career">>

AttributeOrder == PrimaryAttributeName \o SecondaryAttributeName

Position(names, x) == CHOOSE i \in DOMAIN names : names[i] = x

\* Every violation of a validation rule by (carrers, primary, secondary), as
\* a pair of the rule and the attribute
Violations(cs, p, s) ==
    LET v == [n \in Range(AttributeOrder) |-> IF n \in DOMAIN p THEN p[n] ELSE s[n]]
        t(c) == [n \in Range(AttributeOrder) |->
                    IF n \in DOMAIN p THEN c.primary_attributes[n]
                    ELSE c.secondary_attributes[n]]
    IN  IF cs = <<>>
        THEN {<<"no_career", n>> : n \in {m \in Range(AttributeOrder) : v[m] # 0}}
        ELSE {<<"first_career", n>> :
                 n \in {m \in Range(AttributeOrder) : v[m] > t(Career(cs[1]))[m]}}
             \cup (IF Len(cs) > 1
                   THEN {<<"current_career", n>> :
                            n \in {m \in Range(AttributeOrder) :
                                      v[m] > t(Career(cs[Len(cs)]))[m]}}
                   ELSE {})

====
